---- MODULE Spec2Model ----
(***************************************************************************)
(* Model of playlist-from-csv: playlist resolution                         *)
(* (playlist.rs: get_playlist_id_create_if_needed) and track               *)
(* synchronisation (csv_to_playlist.rs and dynamodb.rs:                    *)
(* add_songs_to_playlist / filter_duplicates) against a PlaylistAPI whose  *)
(* responses are arbitrary (the trait object passed in, as the unit tests' *)
(* MockPlaylistAPI).  One step of the model is the code that runs up to    *)
(* and including one call of a PlaylistAPI method and the handling of its  *)
(* return value up to the next call or the function's return.  A behaviour *)
(* is one invocation of one of the three functions with a fresh API object,*)
(* or one run of main.rs: update_playlist_from_csv, which calls             *)
(* get_playlist_id_create_if_needed, parse_csv_file and                     *)
(* dynamodb::add_songs_to_playlist in turn and unwraps each result.         *)
(*                                                                         *)
(* Strings are modelled by integers: a TrackId i stands for the i-th       *)
(* string in the order of String's Ord, so Vec::sort is integer sorting.   *)
(*                                                                         *)
(* Three further specifications put a remote behind the PlaylistAPI:       *)
(* SpecSpotify runs the resolver and dynamodb::add_songs_to_playlist over  *)
(* spotify.rs: SpotifyAPI, one step per page request of its recursive      *)
(* walks, against a remote that serves pages of page_limit items and       *)
(* reports the collection's size as total; SpecRemote calls the resolver   *)
(* and csv_to_playlist::add_songs_to_playlist again and again against a    *)
(* remote that keeps what it is given; SpecRace adds another client that   *)
(* appends a track to the same playlist.                                   *)
(***************************************************************************)
EXTENDS Integers, Sequences, FiniteSets

\* ---- bounds ----
NumTracks == 3
MaxSongs == 3
MaxExisting == 2
NumNames == 2
NumIds == 2
NumErrors == 2

TrackIds == 1..NumTracks
PlaylistNames == 1..NumNames
PlaylistIds == 1..NumIds
Errors == 1..NumErrors
Musics == {"BLA"}

RECURSIVE SeqsUpTo(_, _)
SeqsUpTo(S, n) ==
    IF n = 0 THEN {<<>>}
    ELSE LET shorter == SeqsUpTo(S, n - 1)
         IN  shorter \cup {Append(s, x) : s \in {t \in shorter : Len(t) = n - 1}, x \in S}

\* ---- data types ----
Song == [music : Musics, song_id : TrackIds]

Ok(v) == [tag |-> "Ok", val |-> v]
Err(e) == [tag |-> "Err", err |-> e]
OkUnit == [tag |-> "Ok"]
NoResult == [tag |-> "None"]

PlaylistNotFound == [kind |-> "PlaylistNotFound"]
PlaylistError_APIError(e) == [kind |-> "APIError", e |-> e]
NoNewTracks == [kind |-> "NoNewTracks"]
PlaylistAddError_APIError(e) == [kind |-> "APIError", e |-> e]

\* ---- what the PlaylistAPI methods may return ----
get_playlist_id_returns ==
    {Ok(id) : id \in PlaylistIds}
        \cup {Err(PlaylistError_APIError(e)) : e \in Errors}
        \cup {Err(PlaylistNotFound)}
create_playlist_returns ==
    {Ok(id) : id \in PlaylistIds} \cup {Err(e) : e \in Errors}
get_track_ids_in_playlist_returns ==
    {Ok(t) : t \in SeqsUpTo(TrackIds, MaxExisting)} \cup {Err(e) : e \in Errors}
add_tracks_to_playlist_returns ==
    {OkUnit} \cup {Err(e) : e \in Errors}

VARIABLE pc             \* control position inside the running function
VARIABLE func           \* the function being executed
VARIABLE playlist_name  \* argument of get_playlist_id_create_if_needed
VARIABLE playlist_id    \* argument of add_songs_to_playlist
VARIABLE songs          \* argument of add_songs_to_playlist
VARIABLE filtered       \* local of add_songs_to_playlist
VARIABLE call_history   \* calls of PlaylistAPI methods, with what they returned
VARIABLE result         \* return value of the function (in main: of the last callee)
VARIABLE stdout         \* lines printed by update_playlist_from_csv
VARIABLE remote_playlists \* the user's playlists as the remote holds them
VARIABLE remote_tracks  \* the tracks of the playlist as the remote holds them
VARIABLE page_limit     \* the limit the remote reports in every page
VARIABLE offset         \* argument of the running *_with_offset call
VARIABLE walk_track_ids \* the accumulator of get_track_ids_in_playlist_with_offset
VARIABLE requests       \* requests SpotifyAPI sent to the remote, with their outcome
VARIABLE earlier        \* what the earlier invocations against this remote did

\* the remote service and the state of SpotifyAPI's paginated walks
remote_vars ==
    <<remote_playlists, remote_tracks, page_limit, offset, walk_track_ids, requests,
      earlier>>

vars == <<pc, func, playlist_name, playlist_id, songs, filtered, call_history, result,
          stdout, remote_vars>>

\* ---- pure helpers ----
get_track_id_from_song(song) == song.song_id

track_ids_of(ss) == [i \in 1..Len(ss) |-> get_track_id_from_song(ss[i])]

contains(tracks, id) == \E i \in 1..Len(tracks) : tracks[i] = id

\* mutant of filter_absent: nothing is filtered out
filter_absent_keep_all(track_ids, tracks) == track_ids

filter_absent(track_ids, tracks) ==
    SelectSeq(track_ids, LAMBDA id : ~contains(tracks, id))

RECURSIVE insert_sorted(_, _)
insert_sorted(s, x) ==
    IF s = <<>> THEN <<x>>
    ELSE IF x < Head(s) THEN <<x>> \o s
    ELSE <<Head(s)>> \o insert_sorted(Tail(s), x)

RECURSIVE sort(_)
sort(s) ==
    IF s = <<>> THEN <<>>
    ELSE insert_sorted(sort(SubSeq(s, 1, Len(s) - 1)), s[Len(s)])

RECURSIVE dedup(_)
dedup(s) ==
    IF Len(s) <= 1 THEN s
    ELSE IF s[1] = s[2] THEN dedup(Tail(s))
    ELSE <<s[1]>> \o dedup(Tail(s))

\* no invocation yet: no playlist created, no identifier returned, the running
\* invocation repeats no successful one; tracks_before is the playlist as the
\* remote held it before the first invocation
NothingEarlier ==
    [creates |-> [n \in PlaylistNames |-> 0],
     ids |-> [n \in PlaylistNames |-> {}],
     repeat |-> FALSE,
     tracks_before |-> <<>>]

Init ==
    /\ pc = "idle"
    /\ func = "none"
    /\ playlist_name = 0
    /\ playlist_id = 0
    /\ songs = <<>>
    /\ filtered = <<>>
    /\ call_history = <<>>
    /\ result = NoResult
    /\ stdout = <<>>
    /\ remote_playlists = <<>>
    /\ remote_tracks = <<>>
    /\ page_limit = 0
    /\ offset = 0
    /\ walk_track_ids = <<>>
    /\ requests = <<>>
    /\ earlier = NothingEarlier

\* ---- playlist.rs: get_playlist_id_create_if_needed ----
get_playlist_id_create_if_needed_begin ==
    /\ UNCHANGED remote_vars
    /\ pc = "idle"
    /\ \E name \in PlaylistNames : playlist_name' = name
    /\ pc' = "resolve_get_playlist_id"
    /\ func' = "get_playlist_id_create_if_needed"
    /\ playlist_id' = 0
    /\ songs' = <<>>
    /\ filtered' = <<>>
    /\ call_history' = <<>>
    /\ UNCHANGED stdout
    /\ result' = NoResult

\* mutants of match_get_playlist_id
match_get_playlist_id_create_on_ok(r) ==
    CASE r.tag = "Ok" -> [pc |-> "resolve_create_playlist", result |-> NoResult]
      [] r.tag = "Err" /\ r.err.kind = "PlaylistNotFound" ->
            [pc |-> "resolve_create_playlist", result |-> NoResult]
      [] r.tag = "Err" /\ r.err.kind = "APIError" ->
            [pc |-> "done", result |-> Err(PlaylistError_APIError(r.err.e))]

match_get_playlist_id_no_create(r) ==
    CASE r.tag = "Ok" -> [pc |-> "done", result |-> Ok(r.val)]
      [] r.tag = "Err" /\ r.err.kind = "PlaylistNotFound" ->
            [pc |-> "done", result |-> Err(PlaylistNotFound)]
      [] r.tag = "Err" /\ r.err.kind = "APIError" ->
            [pc |-> "done", result |-> Err(PlaylistError_APIError(r.err.e))]

match_get_playlist_id_create_on_any_error(r) ==
    CASE r.tag = "Ok" -> [pc |-> "done", result |-> Ok(r.val)]
      [] r.tag = "Err" -> [pc |-> "resolve_create_playlist", result |-> NoResult]

\* mutant of match_get_playlist_id: the lookup is retried after an API error
match_get_playlist_id_retry(r) ==
    CASE r.tag = "Ok" -> [pc |-> "done", result |-> Ok(r.val)]
      [] r.tag = "Err" /\ r.err.kind = "PlaylistNotFound" ->
            [pc |-> "resolve_create_playlist", result |-> NoResult]
      [] r.tag = "Err" /\ r.err.kind = "APIError" ->
            [pc |-> "resolve_get_playlist_id", result |-> NoResult]

match_get_playlist_id(r) ==
    CASE r.tag = "Ok" -> [pc |-> "done", result |-> Ok(r.val)]
      [] r.tag = "Err" /\ r.err.kind = "PlaylistNotFound" ->
            [pc |-> "resolve_create_playlist", result |-> NoResult]
      [] r.tag = "Err" /\ r.err.kind = "APIError" ->
            [pc |-> "done", result |-> Err(PlaylistError_APIError(r.err.e))]

get_playlist_id_create_if_needed_lookup ==
    /\ UNCHANGED remote_vars
    /\ pc = "resolve_get_playlist_id"
    /\ \E r \in get_playlist_id_returns :
          /\ call_history' = Append(call_history,
                [op |-> "get_playlist_id", playlist_name |-> playlist_name, ret |-> r])
          /\ pc' = match_get_playlist_id(r).pc
          /\ result' = match_get_playlist_id(r).result
    /\ UNCHANGED <<stdout, func, playlist_name, playlist_id, songs, filtered>>

\* mutants of map_err_create_playlist
map_err_create_playlist_not_found(r) ==
    IF r.tag = "Ok" THEN Ok(r.val) ELSE Err(PlaylistNotFound)

map_err_create_playlist_drop_error(r) ==
    IF r.tag = "Ok" THEN Ok(r.val) ELSE Err(PlaylistError_APIError(1))

map_err_create_playlist(r) ==
    IF r.tag = "Ok" THEN Ok(r.val) ELSE Err(PlaylistError_APIError(r.err))

\* mutant of get_playlist_id_create_if_needed_create: the new playlist is listed
get_playlist_id_create_if_needed_create_and_list ==
    /\ UNCHANGED remote_vars
    /\ pc = "resolve_create_playlist"
    /\ \E r \in create_playlist_returns, l \in get_track_ids_in_playlist_returns :
          /\ call_history' = call_history \o
                <<[op |-> "create_playlist", playlist_name |-> playlist_name, ret |-> r],
                  [op |-> "get_track_ids_in_playlist", playlist_id |-> playlist_id,
                   ret |-> l]>>
          /\ result' = map_err_create_playlist(r)
    /\ pc' = "done"
    /\ UNCHANGED <<stdout, func, playlist_name, playlist_id, songs, filtered>>

get_playlist_id_create_if_needed_create ==
    /\ UNCHANGED remote_vars
    /\ pc = "resolve_create_playlist"
    /\ \E r \in create_playlist_returns :
          /\ call_history' = Append(call_history,
                [op |-> "create_playlist", playlist_name |-> playlist_name, ret |-> r])
          /\ result' = map_err_create_playlist(r)
    /\ pc' = "done"
    /\ UNCHANGED <<stdout, func, playlist_name, playlist_id, songs, filtered>>

\* ---- csv_to_playlist.rs / dynamodb.rs: filter_duplicates ----
\* mutant of filter_duplicates
filter_duplicates_ignore_error(track_ids, r) ==
    IF r.tag = "Ok" THEN Ok(filter_absent(track_ids, r.val)) ELSE Ok(track_ids)

\* r is what playlist_api.get_track_ids_in_playlist(playlist_id) returned
filter_duplicates(track_ids, r) ==
    IF r.tag = "Ok" THEN Ok(filter_absent(track_ids, r.val)) ELSE Err(r.err)

\* ---- csv_to_playlist.rs: add_songs_to_playlist ----
\* mutant of csv_add_songs_to_playlist_begin: no listing call for empty input
csv_add_songs_to_playlist_begin_skip_listing ==
    /\ UNCHANGED remote_vars
    /\ pc = "idle"
    /\ \E id \in PlaylistIds : playlist_id' = id
    /\ \E ss \in SeqsUpTo(Song, MaxSongs) :
          /\ songs' = ss
          /\ pc' = IF ss = <<>> THEN "done" ELSE "csv_filter_duplicates"
          /\ result' = IF ss = <<>> THEN Err(NoNewTracks) ELSE NoResult
    /\ func' = "csv_to_playlist::add_songs_to_playlist"
    /\ playlist_name' = 0
    /\ filtered' = <<>>
    /\ call_history' = <<>>
    /\ UNCHANGED stdout

csv_add_songs_to_playlist_begin ==
    /\ UNCHANGED remote_vars
    /\ pc = "idle"
    /\ \E id \in PlaylistIds : playlist_id' = id
    /\ \E ss \in SeqsUpTo(Song, MaxSongs) : songs' = ss
    /\ pc' = "csv_filter_duplicates"
    /\ func' = "csv_to_playlist::add_songs_to_playlist"
    /\ playlist_name' = 0
    /\ filtered' = <<>>
    /\ call_history' = <<>>
    /\ UNCHANGED stdout
    /\ result' = NoResult

\* mutant of csv_sort_dedup
csv_sort_dedup_unsorted(f) == dedup(f)

\* mutant of csv_sort_dedup: keeps the first occurrence of each id, in input order
RECURSIVE csv_sort_dedup_stable(_)
csv_sort_dedup_stable(f) ==
    IF f = <<>> THEN <<>>
    ELSE LET init == csv_sort_dedup_stable(SubSeq(f, 1, Len(f) - 1))
         IN  IF contains(init, f[Len(f)]) THEN init ELSE Append(init, f[Len(f)])

csv_sort_dedup(f) == dedup(sort(f))

\* mutants of csv_after_filter
csv_after_filter_no_empty_check(fd) ==
    IF fd.tag = "Err"
    THEN [pc |-> "done", filtered |-> <<>>,
          result |-> Err(PlaylistAddError_APIError(fd.err))]
    ELSE [pc |-> "csv_add_tracks_to_playlist", filtered |-> csv_sort_dedup(fd.val),
          result |-> NoResult]

csv_after_filter_error_as_empty(fd) ==
    IF fd.tag = "Err" \/ csv_sort_dedup(fd.val) = <<>>
    THEN [pc |-> "done", filtered |-> <<>>, result |-> Err(NoNewTracks)]
    ELSE [pc |-> "csv_add_tracks_to_playlist", filtered |-> csv_sort_dedup(fd.val),
          result |-> NoResult]

\* fd is the value of filter_duplicates(..): lines 82-92
csv_after_filter(fd) ==
    IF fd.tag = "Err"
    THEN [pc |-> "done", filtered |-> <<>>,
          result |-> Err(PlaylistAddError_APIError(fd.err))]
    ELSE IF csv_sort_dedup(fd.val) = <<>>
    THEN [pc |-> "done", filtered |-> csv_sort_dedup(fd.val),
          result |-> Err(NoNewTracks)]
    ELSE [pc |-> "csv_add_tracks_to_playlist", filtered |-> csv_sort_dedup(fd.val),
          result |-> NoResult]

csv_add_songs_to_playlist_filter ==
    /\ UNCHANGED remote_vars
    /\ pc = "csv_filter_duplicates"
    /\ \E r \in get_track_ids_in_playlist_returns :
          LET next == csv_after_filter(filter_duplicates(track_ids_of(songs), r))
          IN  /\ call_history' = Append(call_history,
                    [op |-> "get_track_ids_in_playlist", playlist_id |-> playlist_id,
                     ret |-> r])
              /\ pc' = next.pc
              /\ filtered' = next.filtered
              /\ result' = next.result
    /\ UNCHANGED <<stdout, func, playlist_name, playlist_id, songs>>

\* mutant of csv_map_err_add_tracks
csv_map_err_add_tracks_ignore_error(r) == OkUnit

csv_map_err_add_tracks(r) ==
    IF r.tag = "Ok" THEN OkUnit ELSE Err(PlaylistAddError_APIError(r.err))

csv_add_songs_to_playlist_add ==
    /\ UNCHANGED remote_vars
    /\ pc = "csv_add_tracks_to_playlist"
    /\ \E r \in add_tracks_to_playlist_returns :
          /\ call_history' = Append(call_history,
                [op |-> "add_tracks_to_playlist", playlist_id |-> playlist_id,
                 track_ids |-> filtered, ret |-> r])
          /\ result' = csv_map_err_add_tracks(r)
    /\ pc' = "done"
    /\ UNCHANGED <<stdout, func, playlist_name, playlist_id, songs, filtered>>

\* ---- dynamodb.rs: add_songs_to_playlist ----
dynamodb_add_songs_to_playlist_begin ==
    /\ UNCHANGED remote_vars
    /\ pc = "idle"
    /\ \E id \in PlaylistIds : playlist_id' = id
    /\ \E ss \in SeqsUpTo(Song, MaxSongs) : songs' = ss
    /\ pc' = "dynamodb_filter_duplicates"
    /\ func' = "dynamodb::add_songs_to_playlist"
    /\ playlist_name' = 0
    /\ filtered' = <<>>
    /\ call_history' = <<>>
    /\ UNCHANGED stdout
    /\ result' = NoResult

\* mutant of dynamodb_after_filter: sorts and deduplicates as csv_to_playlist.rs does
dynamodb_after_filter_sort_dedup(fd) ==
    IF fd.tag = "Err"
    THEN [pc |-> "done", filtered |-> <<>>, result |-> Err(fd.err)]
    ELSE [pc |-> "dynamodb_add_tracks_to_playlist", filtered |-> csv_sort_dedup(fd.val),
          result |-> NoResult]

\* fd is the value of filter_duplicates(..): line 56
dynamodb_after_filter(fd) ==
    IF fd.tag = "Err"
    THEN [pc |-> "done", filtered |-> <<>>, result |-> Err(fd.err)]
    ELSE [pc |-> "dynamodb_add_tracks_to_playlist", filtered |-> fd.val,
          result |-> NoResult]

dynamodb_add_songs_to_playlist_filter ==
    /\ UNCHANGED remote_vars
    /\ pc = "dynamodb_filter_duplicates"
    /\ \E r \in get_track_ids_in_playlist_returns :
          LET next == dynamodb_after_filter(filter_duplicates(track_ids_of(songs), r))
          IN  /\ call_history' = Append(call_history,
                    [op |-> "get_track_ids_in_playlist", playlist_id |-> playlist_id,
                     ret |-> r])
              /\ pc' = next.pc
              /\ filtered' = next.filtered
              /\ result' = next.result
    /\ UNCHANGED <<stdout, func, playlist_name, playlist_id, songs>>

dynamodb_try_add_tracks(r) ==
    IF r.tag = "Ok" THEN OkUnit ELSE Err(r.err)

dynamodb_add_songs_to_playlist_add ==
    /\ UNCHANGED remote_vars
    /\ pc = "dynamodb_add_tracks_to_playlist"
    /\ \E r \in add_tracks_to_playlist_returns :
          /\ call_history' = Append(call_history,
                [op |-> "add_tracks_to_playlist", playlist_id |-> playlist_id,
                 track_ids |-> filtered, ret |-> r])
          /\ result' = dynamodb_try_add_tracks(r)
    /\ pc' = "done"
    /\ UNCHANGED <<stdout, func, playlist_name, playlist_id, songs, filtered>>

\* ---- spotify.rs: SpotifyAPI::new; dynamodb.rs: parse_csv_file ----
AuthenticationFailed == [kind |-> "AuthenticationFailed"]

SpotifyAPI_new_returns == {Ok("SpotifyAPI"), Err(AuthenticationFailed)}

CsvError == [kind |-> "CsvError"]

parse_csv_file_returns ==
    {Ok(ss) : ss \in SeqsUpTo(Song, MaxSongs)} \cup {Err(CsvError)}

\* ---- main.rs: update_playlist_from_csv ----
SuccessMessage == "Successfully added songs!"

\* mutant of unwrap: the error is dropped and main carries on
unwrap_ignore_err(r, next_pc) == next_pc

\* Result::unwrap: continue at next_pc on Ok, panic on Err
unwrap(r, next_pc) == IF r.tag = "Ok" THEN next_pc ELSE "panicked"

\* mutant of println_if_reached: the message is printed before the unwrap
println_always(p, out) == Append(out, SuccessMessage)

\* line 35 runs when the unwrap of line 34 did not panic
println_if_reached(p, out) ==
    IF p = "done" THEN Append(out, SuccessMessage) ELSE out

\* mutant of add_songs_playlist_id_arg: the name is passed where the id belongs
add_songs_playlist_id_arg_name(name, id) == name

\* the playlist_id argument of add_songs_to_playlist at line 34
add_songs_playlist_id_arg(name, id) == id

\* mutant of update_playlist_from_csv_begin: the CSV is parsed before the
\* playlist is resolved
update_playlist_from_csv_begin_parse_first ==
    /\ UNCHANGED remote_vars
    /\ pc = "idle"
    /\ \E name \in PlaylistNames : playlist_name' = name
    /\ \E r \in SpotifyAPI_new_returns :
          /\ result' = r
          /\ pc' = unwrap(r, "main_parse_csv_file")
    /\ func' = "update_playlist_from_csv"
    /\ playlist_id' = 0
    /\ songs' = <<>>
    /\ filtered' = <<>>
    /\ call_history' = <<>>
    /\ UNCHANGED stdout

update_playlist_from_csv_begin ==
    /\ UNCHANGED remote_vars
    /\ pc = "idle"
    /\ \E name \in PlaylistNames : playlist_name' = name
    /\ \E r \in SpotifyAPI_new_returns :
          /\ result' = r
          /\ pc' = unwrap(r, "main_get_playlist_id")
    /\ func' = "update_playlist_from_csv"
    /\ playlist_id' = 0
    /\ songs' = <<>>
    /\ filtered' = <<>>
    /\ call_history' = <<>>
    /\ UNCHANGED stdout

update_playlist_from_csv_get_playlist_id ==
    /\ UNCHANGED remote_vars
    /\ pc = "main_get_playlist_id"
    /\ \E r \in get_playlist_id_returns :
          LET m == match_get_playlist_id(r)
          IN  /\ call_history' = Append(call_history,
                    [op |-> "get_playlist_id", playlist_name |-> playlist_name, ret |-> r])
              /\ result' = m.result
              /\ pc' = IF m.pc = "done" THEN unwrap(m.result, "main_parse_csv_file")
                       ELSE "main_create_playlist"
              /\ playlist_id' = IF m.result.tag = "Ok" THEN m.result.val ELSE playlist_id
    /\ UNCHANGED <<stdout, func, playlist_name, songs, filtered>>

update_playlist_from_csv_create_playlist ==
    /\ UNCHANGED remote_vars
    /\ pc = "main_create_playlist"
    /\ \E r \in create_playlist_returns :
          LET res == map_err_create_playlist(r)
          IN  /\ call_history' = Append(call_history,
                    [op |-> "create_playlist", playlist_name |-> playlist_name, ret |-> r])
              /\ result' = res
              /\ pc' = unwrap(res, "main_parse_csv_file")
              /\ playlist_id' = IF res.tag = "Ok" THEN res.val ELSE playlist_id
    /\ UNCHANGED <<stdout, func, playlist_name, songs, filtered>>

update_playlist_from_csv_parse_csv_file ==
    /\ UNCHANGED remote_vars
    /\ pc = "main_parse_csv_file"
    /\ \E r \in parse_csv_file_returns :
          /\ result' = r
          /\ pc' = unwrap(r, "main_filter_duplicates")
          /\ songs' = IF r.tag = "Ok" THEN r.val ELSE songs
    /\ UNCHANGED <<stdout, func, playlist_name, playlist_id, filtered, call_history>>

update_playlist_from_csv_filter_duplicates ==
    /\ UNCHANGED remote_vars
    /\ pc = "main_filter_duplicates"
    /\ \E r \in get_track_ids_in_playlist_returns :
          LET next == dynamodb_after_filter(filter_duplicates(track_ids_of(songs), r))
              returned == next.pc = "done"
              after == IF returned THEN unwrap(next.result, "done")
                       ELSE "main_add_tracks_to_playlist"
          IN  /\ call_history' = Append(call_history,
                    [op |-> "get_track_ids_in_playlist",
                     playlist_id |-> add_songs_playlist_id_arg(playlist_name, playlist_id),
                     ret |-> r])
              /\ result' = next.result
              /\ filtered' = next.filtered
              /\ pc' = after
              /\ stdout' = IF returned THEN println_if_reached(after, stdout) ELSE stdout
    /\ UNCHANGED <<func, playlist_name, playlist_id, songs>>

update_playlist_from_csv_add_tracks ==
    /\ UNCHANGED remote_vars
    /\ pc = "main_add_tracks_to_playlist"
    /\ \E r \in add_tracks_to_playlist_returns :
          LET res == dynamodb_try_add_tracks(r)
              after == unwrap(res, "done")
          IN  /\ call_history' = Append(call_history,
                    [op |-> "add_tracks_to_playlist",
                     playlist_id |-> add_songs_playlist_id_arg(playlist_name, playlist_id),
                     track_ids |-> filtered, ret |-> r])
              /\ result' = res
              /\ pc' = after
              /\ stdout' = println_if_reached(after, stdout)
    /\ UNCHANGED <<func, playlist_name, playlist_id, songs, filtered>>

Next ==
    \/ get_playlist_id_create_if_needed_begin
    \/ get_playlist_id_create_if_needed_lookup
    \/ get_playlist_id_create_if_needed_create
    \/ csv_add_songs_to_playlist_begin
    \/ csv_add_songs_to_playlist_filter
    \/ csv_add_songs_to_playlist_add
    \/ dynamodb_add_songs_to_playlist_begin
    \/ dynamodb_add_songs_to_playlist_filter
    \/ dynamodb_add_songs_to_playlist_add
    \/ update_playlist_from_csv_begin
    \/ update_playlist_from_csv_get_playlist_id
    \/ update_playlist_from_csv_create_playlist
    \/ update_playlist_from_csv_parse_csv_file
    \/ update_playlist_from_csv_filter_duplicates
    \/ update_playlist_from_csv_add_tracks

Spec == Init /\ [][Next]_vars

\* ---- the remote behind SpotifyAPI ----
MaxRemote == 2
MaxPageLimit == 2
MaxSpotifySongs == 2
MaxDepth == 4

Min(a, b) == IF a < b THEN a ELSE b

\* a playlist of the user as current_user_playlists lists it
SimplifiedPlaylist == [name : PlaylistNames, id : PlaylistIds]

\* a track of a playlist as user_playlist_tracks lists it
PlaylistTrack(id) == [track |-> [id |-> id]]

\* the collections an account can hold: identifiers are unique, names need not be
RemotePlaylists ==
    {c \in SeqsUpTo(SimplifiedPlaylist, MaxRemote) :
        \A i, j \in 1..Len(c) : c[i].id = c[j].id => i = j}

\* the page served for a request at offset off: at most lim items from off on,
\* total is the size of the whole collection
page_of(collection, off, lim) ==
    [items |-> IF off >= Len(collection) THEN <<>>
               ELSE SubSeq(collection, off + 1, Min(off + lim, Len(collection))),
     total |-> Len(collection),
     limit |-> lim]

current_user_playlists_returns(off) ==
    {Ok(page_of(remote_playlists, off, page_limit))} \cup {Err(e) : e \in Errors}

user_playlist_tracks_returns(off) ==
    {Ok(page_of([i \in 1..Len(remote_tracks) |-> PlaylistTrack(remote_tracks[i])],
                off, page_limit))}
        \cup {Err(e) : e \in Errors}

user_playlist_create_returns ==
    {Ok(id) : id \in PlaylistIds \ {remote_playlists[i].id : i \in 1..Len(remote_playlists)}}
        \cup {Err(e) : e \in Errors}

user_playlist_add_tracks_returns == {OkUnit} \cup {Err(e) : e \in Errors}

\* ---- spotify.rs: SpotifyAPI ----
\* index of the first item of the page with that name, 0 when there is none
first_with_name(items, name) ==
    LET at == {i \in 1..Len(items) : items[i].name = name}
    IN  IF at = {} THEN 0 ELSE CHOOSE i \in at : \A j \in at : i <= j

\* mutant of get_playlist_id_with_offset: a failed request counts as not found
get_playlist_id_with_offset_error_as_not_found(r, name, off) ==
    IF r.tag = "Err" THEN [kind |-> "return", result |-> Err(PlaylistNotFound)]
    ELSE LET playlist_page == r.val
             i == first_with_name(playlist_page.items, name)
         IN  IF i # 0
             THEN [kind |-> "return", result |-> Ok(playlist_page.items[i].id)]
             ELSE IF playlist_page.total < playlist_page.limit
             THEN [kind |-> "return", result |-> Err(PlaylistNotFound)]
             ELSE [kind |-> "recurse", offset |-> off + playlist_page.total]

\* one activation of get_playlist_id_with_offset; r is what
\* current_user_playlists(None, Some(off)) returned
get_playlist_id_with_offset(r, name, off) ==
    IF r.tag = "Err" THEN [kind |-> "return", result |-> Err(PlaylistError_APIError(r.err))]
    ELSE LET playlist_page == r.val
             i == first_with_name(playlist_page.items, name)
         IN  IF i # 0
             THEN [kind |-> "return", result |-> Ok(playlist_page.items[i].id)]
             ELSE IF playlist_page.total < playlist_page.limit
             THEN [kind |-> "return", result |-> Err(PlaylistNotFound)]
             ELSE [kind |-> "recurse", offset |-> off + playlist_page.total]

get_track_ids(items) == [i \in 1..Len(items) |-> items[i].track.id]

\* one activation of get_track_ids_in_playlist_with_offset; r is what
\* user_playlist_tracks(.., Some(off), ..) returned, acc is *track_ids
get_track_ids_in_playlist_with_offset(r, off, acc) ==
    IF r.tag = "Err" THEN [kind |-> "return", result |-> Err(r.err), track_ids |-> acc]
    ELSE LET results == r.val
             appended == acc \o get_track_ids(results.items)
         IN  IF results.total < results.limit
             THEN [kind |-> "return", result |-> Ok(appended), track_ids |-> appended]
             ELSE [kind |-> "recurse", offset |-> off + results.total,
                   track_ids |-> appended]

\* mutant of add_tracks_sends_request: the request is sent for an empty slice too
add_tracks_sends_request_always(ids) == TRUE

\* SpotifyAPI::add_tracks_to_playlist returns Ok(()) at once for an empty slice
add_tracks_sends_request(ids) == ids # <<>>

\* ---- get_playlist_id_create_if_needed with SpotifyAPI as the PlaylistAPI ----
spotify_get_playlist_id_create_if_needed_begin ==
    /\ pc = "idle"
    /\ \E name \in PlaylistNames : playlist_name' = name
    /\ \E c \in RemotePlaylists : remote_playlists' = c
    /\ \E lim \in 1..MaxPageLimit : page_limit' = lim
    /\ pc' = "spotify_current_user_playlists"
    /\ func' = "get_playlist_id_create_if_needed(SpotifyAPI)"
    /\ offset' = 0
    /\ requests' = <<>>
    /\ call_history' = <<>>
    /\ result' = NoResult
    /\ UNCHANGED <<playlist_id, songs, filtered, stdout, remote_tracks, walk_track_ids,
                   earlier>>

spotify_get_playlist_id_with_offset ==
    /\ pc = "spotify_current_user_playlists"
    /\ \E r \in current_user_playlists_returns(offset) :
          LET step == get_playlist_id_with_offset(r, playlist_name, offset)
              sent == Append(requests,
                        [req |-> "current_user_playlists", offset |-> offset, ret |-> r])
          IN  /\ requests' = sent
              /\ IF step.kind = "return"
                 THEN LET m == match_get_playlist_id(step.result)
                      IN  /\ call_history' = Append(call_history,
                                [op |-> "get_playlist_id", playlist_name |-> playlist_name,
                                 ret |-> step.result])
                          /\ result' = m.result
                          /\ pc' = IF m.pc = "done" THEN "done"
                                   ELSE "spotify_user_playlist_create"
                          /\ UNCHANGED offset
                 ELSE /\ pc' = IF Len(sent) >= MaxDepth THEN "stack_overflow" ELSE pc
                      /\ offset' = step.offset
                      /\ UNCHANGED <<call_history, result>>
    /\ UNCHANGED <<func, playlist_name, playlist_id, songs, filtered, stdout,
                   remote_playlists, remote_tracks, page_limit, walk_track_ids, earlier>>

spotify_create_playlist ==
    /\ pc = "spotify_user_playlist_create"
    /\ \E r \in user_playlist_create_returns :
          /\ requests' = Append(requests,
                [req |-> "user_playlist_create", name |-> playlist_name, ret |-> r])
          /\ remote_playlists' =
                IF r.tag = "Ok"
                THEN Append(remote_playlists, [name |-> playlist_name, id |-> r.val])
                ELSE remote_playlists
          /\ call_history' = Append(call_history,
                [op |-> "create_playlist", playlist_name |-> playlist_name, ret |-> r])
          /\ result' = map_err_create_playlist(r)
    /\ pc' = "done"
    /\ UNCHANGED <<func, playlist_name, playlist_id, songs, filtered, stdout,
                   remote_tracks, page_limit, offset, walk_track_ids, earlier>>

\* ---- dynamodb::add_songs_to_playlist with SpotifyAPI, as main.rs wires it ----
spotify_add_songs_to_playlist_begin ==
    /\ pc = "idle"
    /\ \E id \in PlaylistIds : playlist_id' = id
    /\ \E ss \in SeqsUpTo(Song, MaxSpotifySongs) : songs' = ss
    /\ \E t \in SeqsUpTo(TrackIds, MaxRemote) : remote_tracks' = t
    /\ \E lim \in 1..MaxPageLimit : page_limit' = lim
    /\ pc' = "spotify_user_playlist_tracks"
    /\ func' = "dynamodb::add_songs_to_playlist(SpotifyAPI)"
    /\ offset' = 0
    /\ walk_track_ids' = <<>>
    /\ requests' = <<>>
    /\ call_history' = <<>>
    /\ filtered' = <<>>
    /\ result' = NoResult
    /\ UNCHANGED <<playlist_name, stdout, remote_playlists, earlier>>

spotify_get_track_ids_in_playlist_with_offset ==
    /\ pc = "spotify_user_playlist_tracks"
    /\ \E r \in user_playlist_tracks_returns(offset) :
          LET step == get_track_ids_in_playlist_with_offset(r, offset, walk_track_ids)
              sent == Append(requests,
                        [req |-> "user_playlist_tracks", playlist_id |-> playlist_id,
                         offset |-> offset, ret |-> r])
          IN  /\ requests' = sent
              /\ walk_track_ids' = step.track_ids
              /\ IF step.kind = "return"
                 THEN LET next == dynamodb_after_filter(
                                      filter_duplicates(track_ids_of(songs), step.result))
                      IN  /\ call_history' = Append(call_history,
                                [op |-> "get_track_ids_in_playlist",
                                 playlist_id |-> playlist_id, ret |-> step.result])
                          /\ result' = next.result
                          /\ filtered' = next.filtered
                          /\ pc' = IF next.pc = "done" THEN "done"
                                   ELSE "spotify_add_tracks_to_playlist"
                          /\ UNCHANGED offset
                 ELSE /\ pc' = IF Len(sent) >= MaxDepth THEN "stack_overflow" ELSE pc
                      /\ offset' = step.offset
                      /\ UNCHANGED <<call_history, result, filtered>>
    /\ UNCHANGED <<func, playlist_name, playlist_id, songs, stdout,
                   remote_playlists, remote_tracks, page_limit, earlier>>

spotify_add_tracks_to_playlist ==
    /\ pc = "spotify_add_tracks_to_playlist"
    /\ IF add_tracks_sends_request(filtered)
       THEN \E r \in user_playlist_add_tracks_returns :
               /\ requests' = Append(requests,
                     [req |-> "user_playlist_add_tracks", playlist_id |-> playlist_id,
                      track_ids |-> filtered, ret |-> r])
               /\ remote_tracks' = IF r.tag = "Ok" THEN remote_tracks \o filtered
                                   ELSE remote_tracks
               /\ call_history' = Append(call_history,
                     [op |-> "add_tracks_to_playlist", playlist_id |-> playlist_id,
                      track_ids |-> filtered, ret |-> r])
               /\ result' = dynamodb_try_add_tracks(r)
       ELSE /\ UNCHANGED <<requests, remote_tracks>>
            /\ call_history' = Append(call_history,
                  [op |-> "add_tracks_to_playlist", playlist_id |-> playlist_id,
                   track_ids |-> filtered, ret |-> OkUnit])
            /\ result' = dynamodb_try_add_tracks(OkUnit)
    /\ pc' = "done"
    /\ UNCHANGED <<func, playlist_name, playlist_id, songs, filtered, stdout,
                   remote_playlists, page_limit, offset, walk_track_ids, earlier>>

NextSpotify ==
    \/ spotify_get_playlist_id_create_if_needed_begin
    \/ spotify_get_playlist_id_with_offset
    \/ spotify_create_playlist
    \/ spotify_add_songs_to_playlist_begin
    \/ spotify_get_track_ids_in_playlist_with_offset
    \/ spotify_add_tracks_to_playlist

SpecSpotify == Init /\ [][NextSpotify]_vars

\* ---- a remote whose answers follow its state (the PlaylistAPI contract) ----
NumRemoteTracks == 2

RemoteTrackIds == 1..NumRemoteTracks

RemoteSong == [music : Musics, song_id : RemoteTrackIds]

\* get_playlist_id answers with the first playlist of that name, or fails
remote_get_playlist_id_returns(name) ==
    LET i == first_with_name(remote_playlists, name)
    IN  {IF i = 0 THEN Err(PlaylistNotFound) ELSE Ok(remote_playlists[i].id)}
            \cup {Err(PlaylistError_APIError(e)) : e \in Errors}

\* create_playlist answers with the identifier of the new playlist, or fails
remote_create_playlist_returns ==
    {Ok(id) : id \in PlaylistIds \ {remote_playlists[i].id : i \in 1..Len(remote_playlists)}}
        \cup {Err(e) : e \in Errors}

\* get_track_ids_in_playlist answers with the playlist's tracks, or fails
remote_get_track_ids_in_playlist_returns ==
    {Ok(remote_tracks)} \cup {Err(e) : e \in Errors}

\* the control position of the run against the remote that p stands for
remote_pc(p) ==
    CASE p = "done" -> "done"
      [] p = "resolve_get_playlist_id" -> "remote_get_playlist_id"
      [] p = "resolve_create_playlist" -> "remote_create_playlist"
      [] p = "csv_add_tracks_to_playlist" -> "remote_add_tracks_to_playlist"

\* ---- get_playlist_id_create_if_needed, called again and again ----
remote_get_playlist_id_create_if_needed_begin ==
    /\ \/ /\ pc = "idle"
          /\ \E c \in RemotePlaylists : remote_playlists' = c
       \/ /\ pc = "done"
          /\ func = "get_playlist_id_create_if_needed(remote)"
          /\ UNCHANGED remote_playlists
    /\ \E name \in PlaylistNames : playlist_name' = name
    /\ pc' = "remote_get_playlist_id"
    /\ func' = "get_playlist_id_create_if_needed(remote)"
    /\ call_history' = <<>>
    /\ result' = NoResult
    /\ UNCHANGED <<playlist_id, songs, filtered, stdout, remote_tracks, page_limit, offset,
                   walk_track_ids, requests, earlier>>

remote_get_playlist_id_create_if_needed_lookup ==
    /\ pc = "remote_get_playlist_id"
    /\ \E r \in remote_get_playlist_id_returns(playlist_name) :
          LET m == match_get_playlist_id(r)
          IN  /\ call_history' = Append(call_history,
                    [op |-> "get_playlist_id", playlist_name |-> playlist_name, ret |-> r])
              /\ result' = m.result
              /\ pc' = remote_pc(m.pc)
              /\ earlier' = IF m.pc = "done" /\ m.result.tag = "Ok"
                            THEN [earlier EXCEPT !.ids[playlist_name] = @ \cup {m.result.val}]
                            ELSE earlier
    /\ UNCHANGED <<func, playlist_name, playlist_id, songs, filtered, stdout,
                   remote_playlists, remote_tracks, page_limit, offset, walk_track_ids,
                   requests>>

remote_get_playlist_id_create_if_needed_create ==
    /\ pc = "remote_create_playlist"
    /\ \E r \in remote_create_playlist_returns :
          LET res == map_err_create_playlist(r)
              counted == IF r.tag = "Ok"
                         THEN [earlier EXCEPT !.creates[playlist_name] = @ + 1]
                         ELSE earlier
          IN  /\ remote_playlists' =
                    IF r.tag = "Ok"
                    THEN Append(remote_playlists, [name |-> playlist_name, id |-> r.val])
                    ELSE remote_playlists
              /\ call_history' = Append(call_history,
                    [op |-> "create_playlist", playlist_name |-> playlist_name, ret |-> r])
              /\ result' = res
              /\ earlier' = IF res.tag = "Ok"
                            THEN [counted EXCEPT !.ids[playlist_name] = @ \cup {res.val}]
                            ELSE counted
    /\ pc' = "done"
    /\ UNCHANGED <<func, playlist_name, playlist_id, songs, filtered, stdout,
                   remote_tracks, page_limit, offset, walk_track_ids, requests>>

\* ---- csv_to_playlist::add_songs_to_playlist, called again and again ----
remote_add_songs_to_playlist_begin ==
    /\ \/ /\ pc = "idle"
          /\ \E id \in PlaylistIds : playlist_id' = id
          /\ \E t \in SeqsUpTo(RemoteTrackIds, MaxRemote) :
                /\ remote_tracks' = t
                /\ earlier' = [earlier EXCEPT !.tracks_before = t]
          /\ \E ss \in SeqsUpTo(RemoteSong, MaxSpotifySongs) : songs' = ss
       \/ /\ pc = "done"
          /\ func = "csv_to_playlist::add_songs_to_playlist(remote)"
          /\ requests = <<>>
          /\ UNCHANGED <<playlist_id, remote_tracks>>
          /\ \E ss \in SeqsUpTo(RemoteSong, MaxSpotifySongs) :
                /\ songs' = ss
                /\ earlier' = [earlier EXCEPT !.repeat = (result.tag = "Ok" /\ ss = songs)]
    /\ pc' = "remote_get_track_ids_in_playlist"
    /\ func' = "csv_to_playlist::add_songs_to_playlist(remote)"
    /\ call_history' = <<>>
    /\ filtered' = <<>>
    /\ result' = NoResult
    /\ UNCHANGED <<playlist_name, stdout, remote_playlists, page_limit, offset,
                   walk_track_ids, requests>>

remote_add_songs_to_playlist_filter ==
    /\ pc = "remote_get_track_ids_in_playlist"
    /\ \E r \in remote_get_track_ids_in_playlist_returns :
          LET next == csv_after_filter(filter_duplicates(track_ids_of(songs), r))
          IN  /\ call_history' = Append(call_history,
                    [op |-> "get_track_ids_in_playlist", playlist_id |-> playlist_id,
                     ret |-> r])
              /\ pc' = remote_pc(next.pc)
              /\ filtered' = next.filtered
              /\ result' = next.result
    /\ UNCHANGED <<func, playlist_name, playlist_id, songs, stdout, remote_vars>>

remote_add_songs_to_playlist_add ==
    /\ pc = "remote_add_tracks_to_playlist"
    /\ \E r \in add_tracks_to_playlist_returns :
          /\ remote_tracks' = IF r.tag = "Ok" THEN remote_tracks \o filtered
                              ELSE remote_tracks
          /\ call_history' = Append(call_history,
                [op |-> "add_tracks_to_playlist", playlist_id |-> playlist_id,
                 track_ids |-> filtered, ret |-> r])
          /\ result' = csv_map_err_add_tracks(r)
    /\ pc' = "done"
    /\ UNCHANGED <<func, playlist_name, playlist_id, songs, filtered, stdout,
                   remote_playlists, page_limit, offset, walk_track_ids, requests,
                   earlier>>

\* another client appends one track to the playlist, once during or after the
\* running invocation; at is the number of calls the invocation had made
other_client_add_tracks ==
    /\ func = "csv_to_playlist::add_songs_to_playlist(remote)"
    /\ pc \in {"remote_get_track_ids_in_playlist", "remote_add_tracks_to_playlist", "done"}
    /\ requests = <<>>
    /\ \E t \in RemoteTrackIds :
          /\ remote_tracks' = Append(remote_tracks, t)
          /\ requests' = <<[req |-> "add_tracks", client |-> "other", track_id |-> t,
                            at |-> Len(call_history), returned |-> pc = "done"]>>
    /\ UNCHANGED <<pc, func, playlist_name, playlist_id, songs, filtered, call_history,
                   result, stdout, remote_playlists, page_limit, offset, walk_track_ids,
                   earlier>>

NextRemote ==
    \/ remote_get_playlist_id_create_if_needed_begin
    \/ remote_get_playlist_id_create_if_needed_lookup
    \/ remote_get_playlist_id_create_if_needed_create
    \/ remote_add_songs_to_playlist_begin
    \/ remote_add_songs_to_playlist_filter
    \/ remote_add_songs_to_playlist_add

SpecRemote == Init /\ [][NextRemote]_vars

NextRace ==
    \/ remote_add_songs_to_playlist_begin
    \/ remote_add_songs_to_playlist_filter
    \/ remote_add_songs_to_playlist_add
    \/ other_client_add_tracks

SpecRace == Init /\ [][NextRace]_vars


\* ---- reading the call history ----
Calls(op) == {i \in 1..Len(call_history) : call_history[i].op = op}

NumCalls(op) == Cardinality(Calls(op))

InResolve == func = "get_playlist_id_create_if_needed"

LookupReturned ==
    /\ InResolve
    /\ Len(call_history) >= 1
    /\ call_history[1].op = "get_playlist_id"

CreateReturned ==
    /\ LookupReturned
    /\ Len(call_history) >= 2
    /\ call_history[2].op = "create_playlist"

\* C1: when get_playlist_id(name) returns Ok(id), get_playlist_id_create_if_needed
\* has returned Ok(id) with that same id and create_playlist was never called.
C1_LookupOkReturnsIdWithoutCreate ==
    (LookupReturned /\ call_history[1].ret.tag = "Ok") =>
        /\ pc = "done"
        /\ result = Ok(call_history[1].ret.val)
        /\ NumCalls("create_playlist") = 0
        /\ NumCalls("get_playlist_id") = 1

C1_Witness ==
    /\ LookupReturned
    /\ call_history[1].ret = Ok(2)
    /\ pc = "done"
    /\ result = Ok(2)

\* C2: when get_playlist_id(name) returns PlaylistNotFound, the function does not
\* return before it has called create_playlist exactly once, with the name that
\* was passed to the lookup (the argument playlist_name); when that call returns
\* Ok(id) the function returns Ok(id).
C2_NotFoundCreatesOnceWithSameName ==
    (LookupReturned /\ call_history[1].ret = Err(PlaylistNotFound)) =>
        /\ NumCalls("create_playlist") <= 1
        /\ pc = "done" =>
              /\ NumCalls("create_playlist") = 1
              /\ CreateReturned
              /\ call_history[2].playlist_name = call_history[1].playlist_name
              /\ call_history[2].playlist_name = playlist_name
              /\ call_history[2].ret.tag = "Ok" =>
                    result = Ok(call_history[2].ret.val)

C2_Witness ==
    /\ CreateReturned
    /\ call_history[1].ret = Err(PlaylistNotFound)
    /\ call_history[2].ret = Ok(2)
    /\ playlist_name = 2
    /\ pc = "done"
    /\ result = Ok(2)

\* C3: when get_playlist_id(name) returns APIError(e), the function has returned
\* Err(APIError(e)) with the same e and create_playlist was never called.
C3_LookupApiErrorPropagatesWithoutCreate ==
    (LookupReturned /\ call_history[1].ret.tag = "Err"
                    /\ call_history[1].ret.err.kind = "APIError") =>
        /\ pc = "done"
        /\ result = Err(PlaylistError_APIError(call_history[1].ret.err.e))
        /\ NumCalls("create_playlist") = 0

C3_Witness ==
    /\ LookupReturned
    /\ call_history[1].ret = Err(PlaylistError_APIError(2))
    /\ pc = "done"
    /\ result = Err(PlaylistError_APIError(2))

\* C4: when get_playlist_id returns PlaylistNotFound and create_playlist returns
\* Err(c), the function returns Err(APIError(c)): the create failure, not the
\* not-found condition.
C4_CreateFailureIsSurfaced ==
    (CreateReturned /\ call_history[1].ret = Err(PlaylistNotFound)
                    /\ call_history[2].ret.tag = "Err") =>
        /\ pc = "done"
        /\ result = Err(PlaylistError_APIError(call_history[2].ret.err))
        /\ result # Err(PlaylistNotFound)

C4_Witness ==
    /\ CreateReturned
    /\ call_history[1].ret = Err(PlaylistNotFound)
    /\ call_history[2].ret = Err(2)
    /\ pc = "done"
    /\ result = Err(PlaylistError_APIError(2))

\* C5: whatever the lookup and create calls return, the result of
\* get_playlist_id_create_if_needed is Ok(id) or Err(APIError(e)), never
\* Err(PlaylistNotFound).
C5_ResultNeverPlaylistNotFound ==
    (InResolve /\ pc = "done") =>
        /\ result # Err(PlaylistNotFound)
        /\ \/ result \in {Ok(id) : id \in PlaylistIds}
           \/ result \in {Err(PlaylistError_APIError(e)) : e \in Errors}

C5_Witness ==
    /\ InResolve
    /\ pc = "done"
    /\ Len(call_history) = 2
    /\ call_history[1].ret = Err(PlaylistNotFound)
    /\ result.tag = "Err"
InCsv == func = "csv_to_playlist::add_songs_to_playlist"

InDynamodb == func = "dynamodb::add_songs_to_playlist"

ListingReturned ==
    /\ InCsv \/ InDynamodb
    /\ Len(call_history) >= 1
    /\ call_history[1].op = "get_track_ids_in_playlist"

ListingOk == ListingReturned /\ call_history[1].ret.tag = "Ok"

ListingFailed == ListingReturned /\ call_history[1].ret.tag = "Err"

AddOk == \E i \in Calls("add_tracks_to_playlist") : call_history[i].ret.tag = "Ok"

AddFailed == \E i \in Calls("add_tracks_to_playlist") : call_history[i].ret.tag = "Err"

SeqSet(s) == {s[i] : i \in 1..Len(s)}

NoRepeats(s) == \A i, j \in 1..Len(s) : s[i] = s[j] => i = j

DesiredSet == {songs[i].song_id : i \in 1..Len(songs)}

\* only read where ListingOk
ExistingSet == SeqSet(call_history[1].ret.val)

Difference == DesiredSet \ ExistingSet

\* C6: whenever csv_to_playlist::add_songs_to_playlist calls
\* add_tracks_to_playlist, the submitted sequence contains each TrackId at most
\* once and its set of elements is (set of desired TrackIds) minus (set of
\* TrackIds the listing returned).
C6_SubmittedIsDedupedDifference ==
    InCsv =>
        \A i \in Calls("add_tracks_to_playlist") :
            /\ ListingOk
            /\ NoRepeats(call_history[i].track_ids)
            /\ SeqSet(call_history[i].track_ids) = Difference

C6_Witness ==
    /\ InCsv
    /\ Calls("add_tracks_to_playlist") # {}
    /\ ListingOk
    /\ Len(call_history[1].ret.val) > Cardinality(ExistingSet)
    /\ ExistingSet \cap DesiredSet # {}
    /\ \E i, j \in 1..Len(songs) :
          /\ i + 1 < j
          /\ songs[i].song_id = songs[j].song_id
          /\ songs[i].song_id \in Difference

\* C7: when the listing succeeds and (desired set) minus (existing set) is empty,
\* csv_to_playlist::add_songs_to_playlist returns Err(NoNewTracks) and
\* add_tracks_to_playlist is never called.
C7_EmptyDifferenceIsNoNewTracks ==
    (InCsv /\ ListingOk /\ Difference = {}) =>
        /\ pc = "done"
        /\ result = Err(NoNewTracks)
        /\ NumCalls("add_tracks_to_playlist") = 0

C7_Witness ==
    /\ InCsv
    /\ ListingOk
    /\ Difference = {}
    /\ Len(songs) > Cardinality(DesiredSet)
    /\ result = Err(NoNewTracks)

\* C8: when get_track_ids_in_playlist returns Err(e), add_songs_to_playlist
\* returns that error (Err(APIError(e)) in csv_to_playlist.rs, Err(e) in
\* dynamodb.rs) and add_tracks_to_playlist is never called.
C8_ListingErrorPropagates ==
    ListingFailed =>
        /\ pc = "done"
        /\ NumCalls("add_tracks_to_playlist") = 0
        /\ InCsv => result = Err(PlaylistAddError_APIError(call_history[1].ret.err))
        /\ InDynamodb => result = Err(call_history[1].ret.err)

C8_Witness ==
    /\ InCsv
    /\ ListingFailed
    /\ call_history[1].ret = Err(2)
    /\ Len(songs) > 0
    /\ result = Err(PlaylistAddError_APIError(2))

\* C9: in csv_to_playlist::add_songs_to_playlist, when the listing succeeds and
\* the difference is non-empty the function does not return before it has called
\* add_tracks_to_playlist exactly once with a repeat-free sequence of exactly the
\* difference; when that call returns Err(e) the function returns
\* Err(APIError(e)).
C9_AddErrorPropagates ==
    InCsv =>
        /\ NumCalls("add_tracks_to_playlist") <= 1
        /\ (pc = "done" /\ ListingOk /\ Difference # {}) =>
              NumCalls("add_tracks_to_playlist") = 1
        /\ \A i \in Calls("add_tracks_to_playlist") :
              call_history[i].ret.tag = "Err" =>
                  /\ pc = "done"
                  /\ result = Err(PlaylistAddError_APIError(call_history[i].ret.err))
                  /\ ListingOk
                  /\ Difference # {}
                  /\ NoRepeats(call_history[i].track_ids)
                  /\ SeqSet(call_history[i].track_ids) = Difference
                  /\ call_history[i].track_ids = filtered

C9_Witness ==
    /\ InCsv
    /\ pc = "done"
    /\ Len(call_history) = 2
    /\ call_history[2].op = "add_tracks_to_playlist"
    /\ call_history[2].ret = Err(2)
    /\ Len(call_history[2].track_ids) >= 2
    /\ result = Err(PlaylistAddError_APIError(2))

ResultIsOk == result = OkUnit

ResultIsNoNewTracks == result = Err(NoNewTracks)

ResultIsAPIError == result.tag = "Err" /\ result.err.kind = "APIError"

\* C10: on return from csv_to_playlist::add_songs_to_playlist exactly one of the
\* three outcomes holds: Ok(()) iff the listing succeeded, the difference was
\* non-empty and the addition succeeded; Err(NoNewTracks) iff the listing
\* succeeded and the difference was empty; Err(APIError) iff the listing or the
\* addition failed.
C10_OutcomesExclusiveAndDetermined ==
    (InCsv /\ pc = "done") =>
        /\ ResultIsOk <=> (ListingOk /\ Difference # {} /\ AddOk)
        /\ ResultIsNoNewTracks <=> (ListingOk /\ Difference = {})
        /\ ResultIsAPIError <=> (ListingFailed \/ AddFailed)
        /\ ResultIsNoNewTracks => ~ListingFailed /\ ~AddFailed
        /\ Cardinality({k \in 1..3 :
              \/ k = 1 /\ ResultIsOk
              \/ k = 2 /\ ResultIsNoNewTracks
              \/ k = 3 /\ ResultIsAPIError}) = 1

C10_Witness ==
    /\ InCsv
    /\ pc = "done"
    /\ ResultIsOk
    /\ AddOk
    /\ ListingOk
    /\ ExistingSet # {}
\* C11: for an empty desired sequence csv_to_playlist::add_songs_to_playlist
\* still calls get_track_ids_in_playlist exactly once before it returns, and if
\* that call succeeds it returns Err(NoNewTracks) without calling
\* add_tracks_to_playlist, whatever the listing returned.
C11_EmptyDesiredStillLists ==
    (InCsv /\ songs = <<>>) =>
        /\ NumCalls("get_track_ids_in_playlist") <= 1
        /\ NumCalls("add_tracks_to_playlist") = 0
        /\ pc = "done" =>
              /\ NumCalls("get_track_ids_in_playlist") = 1
              /\ ListingOk => result = Err(NoNewTracks)

C11_Witness ==
    /\ InCsv
    /\ songs = <<>>
    /\ pc = "done"
    /\ ListingOk
    /\ ExistingSet # {}
    /\ result = Err(NoNewTracks)

\* the indices of songs whose TrackId the listing did not return
KeptIndices == {i \in 1..Len(songs) : songs[i].song_id \notin ExistingSet}

KthKept(k) == CHOOSE i \in KeptIndices : Cardinality({j \in KeptIndices : j <= i}) = k

\* C14: dynamodb::add_songs_to_playlist, when the listing succeeds, does not
\* return before it has called add_tracks_to_playlist exactly once, with the
\* subsequence of the desired TrackIds that are absent from the listing, in input
\* order and with their multiplicity.
C14_DynamodbSubmitsSubsequenceInOrder ==
    (InDynamodb /\ ListingOk) =>
        /\ NumCalls("add_tracks_to_playlist") <= 1
        /\ pc = "done" => NumCalls("add_tracks_to_playlist") = 1
        /\ \A c \in Calls("add_tracks_to_playlist") :
              /\ Len(call_history[c].track_ids) = Cardinality(KeptIndices)
              /\ \A k \in 1..Cardinality(KeptIndices) :
                    call_history[c].track_ids[k] = songs[KthKept(k)].song_id

C14_Witness ==
    /\ InDynamodb
    /\ ListingOk
    /\ ExistingSet \cap DesiredSet # {}
    /\ \E c \in Calls("add_tracks_to_playlist") :
          LET s == call_history[c].track_ids
          IN  /\ Len(s) >= 2
              /\ s[1] > s[2]

StrictlyAscending(s) == \A i \in 1..(Len(s) - 1) : s[i] < s[i + 1]

Reverse(s) == [i \in 1..Len(s) |-> s[Len(s) + 1 - i]]

\* C20: the sequence csv_to_playlist::add_songs_to_playlist submits is strictly
\* ascending, so it is the one ascending enumeration of (desired set) minus
\* (existing set): the desired input reversed, or with every entry repeated,
\* yields the same submitted sequence against the same listing.
C20_SubmittedIsStrictlyAscending ==
    InCsv =>
        \A c \in Calls("add_tracks_to_playlist") :
            LET s == call_history[c].track_ids
                d == track_ids_of(songs)
                existing == call_history[1].ret.val
            IN  /\ StrictlyAscending(s)
                /\ SeqSet(s) = Difference
                /\ csv_sort_dedup(filter_absent(Reverse(d), existing)) = s
                /\ csv_sort_dedup(filter_absent(d \o d, existing)) = s

C20_Witness ==
    /\ InCsv
    /\ \E c \in Calls("add_tracks_to_playlist") :
          /\ Len(call_history[c].track_ids) >= 2
          /\ ~StrictlyAscending(track_ids_of(songs))
          /\ Len(songs) > Cardinality(DesiredSet)
InMain == func = "update_playlist_from_csv"

Returned == pc \in {"done", "panicked"}

\* C12: with dynamodb::add_songs_to_playlist (alone or as called by
\* update_playlist_from_csv), when the listing succeeded and every desired
\* TrackId (there is at least one) is in it, the caller does not receive Ok(()),
\* the value of a run that added tracks.
C12_DynamodbNothingToAddIsDistinguishable ==
    ((InDynamodb \/ InMain) /\ Returned) =>
        \A l \in Calls("get_track_ids_in_playlist") :
            (/\ call_history[l].ret.tag = "Ok"
             /\ DesiredSet # {}
             /\ DesiredSet \subseteq SeqSet(call_history[l].ret.val)) =>
                result # OkUnit

\* C13: in update_playlist_from_csv every sequence passed to
\* add_tracks_to_playlist contains each TrackId at most once.
C13_MainSubmitsNoRepeats ==
    InMain =>
        \A c \in Calls("add_tracks_to_playlist") : NoRepeats(call_history[c].track_ids)

\* C15: add_songs_to_playlist (both variants) never calls get_playlist_id or
\* create_playlist, and get_playlist_id_create_if_needed never calls
\* get_track_ids_in_playlist or add_tracks_to_playlist, on any path.
C15_ComponentsUseOnlyTheirOwnCalls ==
    /\ (InCsv \/ InDynamodb) =>
          /\ NumCalls("get_playlist_id") = 0
          /\ NumCalls("create_playlist") = 0
          /\ pc = "done" => NumCalls("get_track_ids_in_playlist") > 0
    /\ InResolve =>
          /\ NumCalls("get_track_ids_in_playlist") = 0
          /\ NumCalls("add_tracks_to_playlist") = 0
          /\ pc = "done" => NumCalls("get_playlist_id") > 0

C15_Witness ==
    /\ InResolve
    /\ pc = "done"
    /\ CreateReturned
    /\ Len(call_history) = 2
    /\ result.tag = "Ok"

\* C16: no retries.  In one invocation (alone or inside update_playlist_from_csv)
\* each PlaylistAPI method is called at most once; when
\* get_playlist_id_create_if_needed has returned, get_playlist_id was called
\* exactly once, and when add_songs_to_playlist has returned,
\* get_track_ids_in_playlist was called exactly once.
C16_NoRetries ==
    /\ \A op \in {"get_playlist_id", "create_playlist",
                  "get_track_ids_in_playlist", "add_tracks_to_playlist"} :
          NumCalls(op) <= 1
    /\ (InResolve /\ pc = "done") => NumCalls("get_playlist_id") = 1
    /\ ((InCsv \/ InDynamodb) /\ pc = "done") =>
          NumCalls("get_track_ids_in_playlist") = 1
    /\ (InMain /\ pc = "done") =>
          /\ NumCalls("get_playlist_id") = 1
          /\ NumCalls("get_track_ids_in_playlist") = 1

C16_Witness ==
    /\ InResolve
    /\ pc = "done"
    /\ Len(call_history) = 1
    /\ call_history[1].ret.tag = "Err"
    /\ NumCalls("get_playlist_id") = 1

IsLookup(c) == c.op = "get_playlist_id"

IsCreate(c) == c.op = "create_playlist"

IsListing(c) == c.op = "get_track_ids_in_playlist"

IsAdd(c) == c.op = "add_tracks_to_playlist"

\* C17: in update_playlist_from_csv the calls are made in the order lookup,
\* create (only right after a not-found lookup), listing (only right after a
\* lookup or a create that returned Ok), addition (only right after a listing
\* that returned Ok).  Every call is recorded with its return value before the
\* next one is made: calls are synchronous, so none overlaps another.
C17_MainCallOrder ==
    InMain =>
        \A i \in 1..Len(call_history) :
            LET c == call_history[i]
            IN  /\ IsLookup(c) <=> i = 1
                /\ IsCreate(c) =>
                      /\ i = 2
                      /\ call_history[1].ret = Err(PlaylistNotFound)
                /\ IsListing(c) =>
                      /\ i > 1
                      /\ IsLookup(call_history[i - 1]) \/ IsCreate(call_history[i - 1])
                      /\ call_history[i - 1].ret.tag = "Ok"
                /\ IsAdd(c) =>
                      /\ i > 1
                      /\ IsListing(call_history[i - 1])
                      /\ call_history[i - 1].ret.tag = "Ok"

C17_Witness ==
    /\ InMain
    /\ pc = "done"
    /\ Len(call_history) = 4
    /\ IsCreate(call_history[2])
    /\ IsListing(call_history[3])
    /\ IsAdd(call_history[4])

\* a call that failed, other than the lookup reporting not-found
FailedCall(c) == c.ret.tag = "Err" /\ ~(IsLookup(c) /\ c.ret = Err(PlaylistNotFound))

\* C18: in update_playlist_from_csv a remote failure aborts the run: a failed
\* lookup or create is followed by no listing and no addition, a failed listing
\* by no addition, the run ends in a panic, and the success message is printed
\* only (and then once) when resolution, listing and addition all succeeded.
C18_MainAbortsOnFirstFailure ==
    InMain =>
        /\ \A i \in 1..Len(call_history) :
              FailedCall(call_history[i]) =>
                  /\ i = Len(call_history)
                  /\ pc = "panicked"
                  /\ stdout = <<>>
        /\ stdout # <<>> =>
              /\ stdout = <<SuccessMessage>>
              /\ pc = "done"
              /\ \E i \in 1..Len(call_history) :
                    /\ IsLookup(call_history[i]) \/ IsCreate(call_history[i])
                    /\ call_history[i].ret.tag = "Ok"
              /\ \E i \in 1..Len(call_history) :
                    IsListing(call_history[i]) /\ call_history[i].ret.tag = "Ok"
              /\ \E i \in 1..Len(call_history) :
                    IsAdd(call_history[i]) /\ call_history[i].ret.tag = "Ok"
        /\ pc = "done" => stdout = <<SuccessMessage>>

C18_Witness ==
    /\ InMain
    /\ pc = "panicked"
    /\ Len(call_history) = 3
    /\ IsCreate(call_history[2])
    /\ IsListing(call_history[3])
    /\ call_history[3].ret.tag = "Err"
    /\ Len(songs) > 0
    /\ stdout = <<>>

\* the identifier get_playlist_id_create_if_needed returned in this run
ResolvedIds ==
    {call_history[i].ret.val : i \in {j \in 1..Len(call_history) :
        /\ IsLookup(call_history[j]) \/ IsCreate(call_history[j])
        /\ call_history[j].ret.tag = "Ok"}}

\* C19: add_songs_to_playlist passes the playlist_id it received to
\* get_track_ids_in_playlist and to add_tracks_to_playlist, and
\* update_playlist_from_csv passes the identifier that
\* get_playlist_id_create_if_needed returned, which it resolves once.
C19_PlaylistIdPassedThrough ==
    /\ (InCsv \/ InDynamodb) =>
          \A i \in Calls("get_track_ids_in_playlist") \cup Calls("add_tracks_to_playlist") :
              call_history[i].playlist_id = playlist_id
    /\ InMain =>
          /\ NumCalls("get_playlist_id") <= 1
          /\ Cardinality(ResolvedIds) <= 1
          /\ \A i \in Calls("get_track_ids_in_playlist") \cup Calls("add_tracks_to_playlist") :
                ResolvedIds = {call_history[i].playlist_id}

C19_Witness ==
    /\ InMain
    /\ pc = "done"
    /\ playlist_name = 1
    /\ ResolvedIds = {2}
    /\ \E i \in Calls("add_tracks_to_playlist") : call_history[i].playlist_id = 2
    /\ \E i \in Calls("get_track_ids_in_playlist") : call_history[i].playlist_id = 2

\* the run panicked although its last PlaylistAPI call succeeded: the unwrap of
\* parse_csv_file (main.rs line 33) failed
ParseFailed ==
    /\ InMain
    /\ pc = "panicked"
    /\ Len(call_history) >= 1
    /\ call_history[Len(call_history)].ret.tag = "Ok"

\* the calls made when the CSV is parsed: one lookup, a create exactly when the
\* lookup reported not-found, the last of them successful, nothing else
ResolvedBeforeParse ==
    /\ NumCalls("get_playlist_id") = 1
    /\ IsLookup(call_history[1])
    /\ NumCalls("get_track_ids_in_playlist") = 0
    /\ NumCalls("add_tracks_to_playlist") = 0
    /\ Cardinality(ResolvedIds) = 1
    /\ ResolvedIds = {playlist_id}
    /\ IF call_history[1].ret = Err(PlaylistNotFound)
       THEN /\ Len(call_history) = 2
            /\ IsCreate(call_history[2])
            /\ call_history[2].ret.tag = "Ok"
       ELSE /\ Len(call_history) = 1
            /\ call_history[1].ret.tag = "Ok"

\* C30: update_playlist_from_csv parses the CSV only after resolution succeeded:
\* when the parse is about to run, and when it has failed, the lookup has been
\* called, create_playlist has been called and has created the playlist when the
\* lookup reported not-found, and no listing and no addition call was made; a
\* parse failure panics and prints nothing.
C30_ParseAfterResolution ==
    /\ (InMain /\ pc = "main_parse_csv_file") => ResolvedBeforeParse
    /\ ParseFailed =>
          /\ ResolvedBeforeParse
          /\ result = Err(CsvError)
          /\ songs = <<>>
          /\ stdout = <<>>

C30_Witness ==
    /\ ParseFailed
    /\ result = Err(CsvError)
    /\ Len(call_history) = 2
    /\ call_history[1].ret = Err(PlaylistNotFound)
    /\ call_history[2].ret = Ok(2)

\* ---- SpotifyAPI over a paginated remote ----
InSpotifyResolve == func = "get_playlist_id_create_if_needed(SpotifyAPI)"

InSpotifyAdd == func = "dynamodb::add_songs_to_playlist(SpotifyAPI)"

\* the requests of one kind sent so far
Requests(req) == {i \in 1..Len(requests) : requests[i].req = req}

\* SpotifyAPI::get_playlist_id has returned and create_playlist was not called:
\* remote_playlists is the collection the walk went through
PlaylistWalkReturned ==
    /\ InSpotifyResolve
    /\ Len(call_history) = 1
    /\ call_history[1].op = "get_playlist_id"

\* C21: against a remote that serves pages of at most limit items and reports the
\* size of the whole collection as total, SpotifyAPI::get_playlist_id returns
\* the id of the first playlist with the name whatever the size of the
\* collection, also when the match lies beyond the first page: the walk never
\* moves its offset past the first match, Ok carries that match's id, and
\* PlaylistNotFound is returned only when no playlist has the name.
C21_FirstMatchOnAnyPage ==
    LET first == first_with_name(remote_playlists, playlist_name)
    IN  /\ (InSpotifyResolve /\ pc = "spotify_current_user_playlists" /\ first # 0) =>
              offset < first
        /\ (PlaylistWalkReturned /\ call_history[1].ret.tag = "Ok") =>
              /\ first # 0
              /\ call_history[1].ret.val = remote_playlists[first].id
        /\ (PlaylistWalkReturned /\ call_history[1].ret = Err(PlaylistNotFound)) =>
              first = 0

\* SpotifyAPI::get_track_ids_in_playlist has returned and nothing was added yet:
\* remote_tracks is the playlist the walk went through
TrackWalkReturned ==
    /\ InSpotifyAdd
    /\ Len(call_history) = 1
    /\ call_history[1].op = "get_track_ids_in_playlist"

\* C22: SpotifyAPI::get_track_ids_in_playlist returns the playlist's track ids
\* as they occur and in playlist order whatever the playlist's size: while the
\* walk runs the ids collected so far are the playlist up to the offset of the
\* next request (no page skipped, none read twice), and Ok carries the whole
\* playlist.
C22_AllTracksInOrder ==
    /\ (InSpotifyAdd /\ pc = "spotify_user_playlist_tracks") =>
          /\ offset = Len(walk_track_ids)
          /\ offset <= Len(remote_tracks)
          /\ walk_track_ids = SubSeq(remote_tracks, 1, offset)
    /\ (TrackWalkReturned /\ call_history[1].ret.tag = "Ok") =>
          call_history[1].ret.val = remote_tracks

\* C23: every paginated walk returns after finitely many page requests, also
\* when the collection is at least as large as the page limit: a walk over a
\* collection of at most MaxRemote items never fills the MaxDepth frames of
\* recursion the stack holds.
C23_WalksReturn ==
    (InSpotifyResolve \/ InSpotifyAdd) => pc # "stack_overflow"

\* C24: a failed current_user_playlists request, on the first page or a later
\* one, ends SpotifyAPI::get_playlist_id with APIError carrying that failure,
\* never PlaylistNotFound, so get_playlist_id_create_if_needed returns that
\* error and neither calls create_playlist nor sends user_playlist_create.
C24_PageFailureIsAPIError ==
    InSpotifyResolve =>
        \A i \in Requests("current_user_playlists") :
            requests[i].ret.tag = "Err" =>
                /\ i = Len(requests)
                /\ pc = "done"
                /\ Len(call_history) = 1
                /\ call_history[1].op = "get_playlist_id"
                /\ call_history[1].ret = Err(PlaylistError_APIError(requests[i].ret.err))
                /\ result = Err(PlaylistError_APIError(requests[i].ret.err))
                /\ Requests("user_playlist_create") = {}

C24_Witness ==
    /\ InSpotifyResolve
    /\ Len(requests) = 2
    /\ requests[1].ret.tag = "Ok"
    /\ requests[2].req = "current_user_playlists"
    /\ requests[2].ret = Err(2)
    /\ pc = "done"
    /\ result = Err(PlaylistError_APIError(2))

\* C25: as main.rs wires it (dynamodb::add_songs_to_playlist over SpotifyAPI),
\* when the listing shows every desired TrackId in the playlist,
\* add_tracks_to_playlist is called with the empty slice and returns Ok(())
\* without a user_playlist_add_tracks request: the remote playlist is not
\* written.
C25_NothingToAddSendsNoRequest ==
    (InSpotifyAdd /\ Len(call_history) >= 1 /\ call_history[1].ret.tag = "Ok"
                  /\ DesiredSet \subseteq SeqSet(call_history[1].ret.val)) =>
        /\ filtered = <<>>
        /\ Requests("user_playlist_add_tracks") = {}
        /\ remote_tracks = call_history[1].ret.val
        /\ pc = "done" =>
              /\ Len(call_history) = 2
              /\ call_history[2].op = "add_tracks_to_playlist"
              /\ call_history[2].track_ids = <<>>
              /\ call_history[2].ret = OkUnit
              /\ result = OkUnit

C25_Witness ==
    /\ InSpotifyAdd
    /\ pc = "done"
    /\ Len(call_history) = 2
    /\ DesiredSet = {1}
    /\ call_history[1].ret = Ok(<<1>>)
    /\ call_history[2].track_ids = <<>>
    /\ result = OkUnit
    /\ Requests("user_playlist_add_tracks") = {}

\* ---- runs against a remote that keeps what it is given ----
InRemoteResolve == func = "get_playlist_id_create_if_needed(remote)"

InRemoteCsv == func = "csv_to_playlist::add_songs_to_playlist(remote)"

Occurrences(t, s) == Cardinality({i \in 1..Len(s) : s[i] = t})

IsPrefix(s, t) == Len(s) <= Len(t) /\ SubSeq(t, 1, Len(s)) = s

\* the running invocation has called add_tracks_to_playlist and it succeeded
RemoteAddOk ==
    /\ InRemoteCsv
    /\ Len(call_history) = 2
    /\ call_history[2].op = "add_tracks_to_playlist"
    /\ call_history[2].ret.tag = "Ok"

\* the other client wrote t after the listing returned and before the addition
WrittenBetween(t) ==
    /\ requests # <<>>
    /\ requests[1].track_id = t
    /\ requests[1].at = 1
    /\ ~requests[1].returned

\* the other client wrote after the listing was taken
WrittenSinceListing == requests # <<>> /\ requests[1].at >= 1

\* C26: when another client adds t after get_track_ids_in_playlist returned and
\* before add_tracks_to_playlist is called, t being desired and absent from the
\* listing, the sync still submits t and after its successful addition the
\* playlist holds t twice; when nobody wrote since the listing, every submitted
\* TrackId is in the playlist exactly once after the addition.
C26_DuplicateOnlyByInterleavedWrite ==
    RemoteAddOk =>
        \A t \in RemoteTrackIds :
            /\ (/\ WrittenBetween(t)
                /\ t \in DesiredSet
                /\ call_history[1].ret.tag = "Ok"
                /\ t \notin SeqSet(call_history[1].ret.val)) =>
                  /\ t \in SeqSet(call_history[2].track_ids)
                  /\ Occurrences(t, remote_tracks) = 2
            /\ (t \in SeqSet(call_history[2].track_ids) /\ ~WrittenSinceListing) =>
                  Occurrences(t, remote_tracks) = 1

C26_Witness ==
    /\ RemoteAddOk
    /\ WrittenBetween(1)
    /\ DesiredSet = {1}
    /\ call_history[1].ret = Ok(<<>>)
    /\ call_history[2].track_ids = <<1>>
    /\ remote_tracks = <<1, 1>>

\* C27: against a remote that keeps the playlists it creates, over any sequence
\* of get_playlist_id_create_if_needed calls (lookups and creations may fail)
\* at most one create_playlist call per name succeeds, and all calls that
\* return Ok for a name return the same identifier.
C27_ResolutionIdempotent ==
    InRemoteResolve =>
        \A n \in PlaylistNames :
            /\ earlier.creates[n] <= 1
            /\ Cardinality(earlier.ids[n]) <= 1

C27_Witness ==
    /\ InRemoteResolve
    /\ pc = "done"
    /\ Len(call_history) = 1
    /\ call_history[1].ret.tag = "Ok"
    /\ earlier.creates[playlist_name] = 1
    /\ earlier.ids[playlist_name] = {call_history[1].ret.val}
    /\ result = call_history[1].ret

\* C28: with no other writer, a call of csv_to_playlist::add_songs_to_playlist
\* that repeats, on the same playlist and with the same desired sequence, a call
\* that returned Ok(()) never calls add_tracks_to_playlist and leaves the
\* playlist as it is; once its listing has returned the tracks it has returned
\* Err(NoNewTracks).
C28_SyncIdempotent ==
    (InRemoteCsv /\ earlier.repeat) =>
        /\ NumCalls("add_tracks_to_playlist") = 0
        /\ pc # "remote_add_tracks_to_playlist"
        /\ DesiredSet \subseteq SeqSet(remote_tracks)
        /\ (Len(call_history) >= 1 /\ call_history[1].ret.tag = "Ok") =>
              /\ pc = "done"
              /\ result = Err(NoNewTracks)
              /\ remote_tracks = call_history[1].ret.val

C28_Witness ==
    /\ InRemoteCsv
    /\ earlier.repeat
    /\ pc = "done"
    /\ result = Err(NoNewTracks)
    /\ DesiredSet = {1, 2}
    /\ earlier.tracks_before = <<>>
    /\ remote_tracks = <<1, 2>>
    /\ call_history[1].ret = Ok(<<1, 2>>)

\* C29: with no other writer, when the playlist held no TrackId twice before the
\* first call, then over any sequence of csv_to_playlist::add_songs_to_playlist
\* calls (listings and additions may fail) it holds no TrackId twice, what it
\* held before the first call and what a listing returned is still its
\* beginning, and after a call that returned Ok(()) every desired TrackId of
\* that call is in it.
C29_DuplicateFreenessPreserved ==
    (InRemoteCsv /\ NoRepeats(earlier.tracks_before)) =>
        /\ NoRepeats(remote_tracks)
        /\ IsPrefix(earlier.tracks_before, remote_tracks)
        /\ (Len(call_history) >= 1 /\ call_history[1].ret.tag = "Ok") =>
              IsPrefix(call_history[1].ret.val, remote_tracks)
        /\ (pc = "done" /\ result.tag = "Ok") => DesiredSet \subseteq SeqSet(remote_tracks)

C29_Witness ==
    /\ InRemoteCsv
    /\ pc = "done"
    /\ result = OkUnit
    /\ earlier.tracks_before = <<>>
    /\ call_history[1].ret = Ok(<<1>>)
    /\ DesiredSet = {1, 2}
    /\ call_history[2].track_ids = <<2>>
    /\ remote_tracks = <<1, 2>>
====
